---- MODULE Spec2Model ----
(***************************************************************************)
(* llm_intercept: an intercepting proxy in front of an OpenAI-compatible   *)
(* chat-completions API (src/llm_intercept/app.py, proxy.py, models.py).   *)
(*                                                                         *)
(* One exchange = one call of POST /v1/chat/completions.  The handler is   *)
(* an asyncio coroutine: the code between two awaits runs without          *)
(* interleaving, so every action below is one such segment.  Exchanges     *)
(* interleave with one another at the awaits and share only the store.     *)
(*                                                                         *)
(* Modelled inputs: any Authorization header, any request body (bytes that *)
(* cannot be decoded, text that is not JSON, or a JSON object whose fields *)
(* have the types of the endpoint: "messages" a list, "stream" a boolean), *)
(* any upstream answer, any store fault, a client that may disconnect.     *)
(***************************************************************************)
EXTENDS Integers, Sequences, FiniteSets, TLC

(***************************************************************************)
(* Bounds                                                                  *)
(***************************************************************************)
\* longest upstream chunk sequence of one streaming exchange
MaxChunks == 2
\* longest conversation in a request body
MaxMessages == 1

\* the exchanges, numbered in the order in which the calls arrive
Exchanges == {1, 2}

(***************************************************************************)
(* JSON / Python values.  Every value is a tagged record so that values of *)
(* different Python types can be compared.                                 *)
(***************************************************************************)
JNull == [t |-> "null"]
JStr(s) == [t |-> "str", s |-> s]
\* a str kept as its sequence of characters (for startswith and slicing)
JChars(s) == [t |-> "chars", s |-> s]
JBool(b) == [t |-> "bool", b |-> b]
JList(items) == [t |-> "list", items |-> items]
JObj(f) == [t |-> "obj", f |-> f]
EmptyObj == [t |-> "obj", f |-> <<>>]

IsObj(v) == v.t = "obj"

\* Python truthiness (bool(v)) of a value
Truthy(v) ==
  CASE v.t = "null" -> FALSE
    [] v.t = "str"  -> v.s # ""
    [] v.t = "chars" -> v.s # <<>>
    [] v.t = "bool" -> v.b
    [] v.t = "list" -> v.items # <<>>
    [] v.t = "obj"  -> DOMAIN v.f # {}
    [] OTHER -> TRUE

\* `k in v` for a dict (key membership) or a list (element membership)
In(k, v) ==
  CASE v.t = "obj"  -> k \in DOMAIN v.f
    [] v.t = "list" -> \E i \in 1..Len(v.items) : v.items[i] = JStr(k)
    [] OTHER -> FALSE

\* dict.get(k, default); only called on dicts
Get(v, k, default) == IF k \in DOMAIN v.f THEN v.f[k] ELSE default

\* json.dumps(v): the JSON text of v; distinct values have distinct texts
json_dumps(v) == [t |-> "json_text", of |-> v]

\* list.copy() followed by list.append(x)
Append1(lst, x) == JList(Append(lst.items, x))

(***************************************************************************)
(* app.py: the Reconstructor for unary payloads                            *)
(***************************************************************************)
\* the assistant turn built at app.py:66-73 from a first-choice message
BuildAssistantMsg(message) ==
  LET base == [role |-> JStr("assistant"),
               content |-> Get(message, "content", JStr(""))]
  IN IF In("tool_calls", message) /\ Truthy(message.f["tool_calls"])
       THEN JObj([role |-> base.role, content |-> base.content,
                  tool_calls |-> message.f["tool_calls"]])
       ELSE JObj(base)

\* an exception raised inside a try block
Raised == [t |-> "raised"]

\* the try block of extract_assistant_message (app.py:52-75): the turn, JNull
\* (Python None), or Raised where a statement raises: a .get on a value that
\* is not a dict (AttributeError)
extract_assistant_message_try(response_data) ==
  IF ~Truthy(response_data) \/ ~In("choices", response_data) THEN JNull
  ELSE IF ~IsObj(response_data) THEN Raised
  ELSE LET choices == Get(response_data, "choices", JList(<<>>)) IN
    IF ~Truthy(choices) THEN JNull
    ELSE IF choices.t # "list" THEN Raised
    ELSE LET first == choices.items[1] IN
      IF ~IsObj(first) THEN Raised
      ELSE LET message == Get(first, "message", JNull) IN
        IF ~Truthy(message) THEN JNull
        ELSE IF ~IsObj(message) THEN Raised
        ELSE BuildAssistantMsg(message)

\* variant: no except clause, the exception leaves the function
extract_assistant_message_no_except(response_data) ==
  extract_assistant_message_try(response_data)

\* extract_assistant_message: the except clause (app.py:76-78) turns every
\* exception of the try block into None
extract_assistant_message(response_data) ==
  LET r == extract_assistant_message_try(response_data)
  IN IF r = Raised THEN JNull ELSE r

\* extract_tool_calls: the JSON text of the first choice's tool calls, or None
extract_tool_calls(response_data) ==
  IF ~Truthy(response_data) \/ ~In("choices", response_data) THEN JNull
  ELSE IF ~IsObj(response_data) THEN JNull
  ELSE LET choices == Get(response_data, "choices", JList(<<>>)) IN
    IF ~Truthy(choices) THEN JNull
    ELSE IF choices.t # "list" THEN JNull
    ELSE LET first == choices.items[1] IN
      IF ~IsObj(first) THEN JNull
      ELSE LET message == Get(first, "message", EmptyObj) IN
        IF ~IsObj(message) THEN JNull
        ELSE LET tool_calls == Get(message, "tool_calls", JNull) IN
          IF Truthy(tool_calls) THEN json_dumps(tool_calls) ELSE JNull

(***************************************************************************)
(* app.py: the Credential Extractor                                        *)
(***************************************************************************)
BearerPrefix == <<"B", "e", "a", "r", "e", "r", " ">>

\* str.startswith
StartsWith(s, prefix) ==
  Len(s) >= Len(prefix) /\ SubSeq(s, 1, Len(prefix)) = prefix

\* extract_api_key: the key, or the HTTPException it raises
extract_api_key(authorization) ==
  IF ~Truthy(authorization)
    THEN [ok |-> FALSE, status_code |-> 401,
          detail |-> "Missing Authorization header"]
  ELSE IF ~StartsWith(authorization.s, BearerPrefix)
    THEN [ok |-> FALSE, status_code |-> 401,
          detail |-> "Invalid Authorization header format"]
  ELSE [ok |-> TRUE,
        api_key |-> SubSeq(authorization.s, 8, Len(authorization.s))]

\* hashlib.sha256(api_key.encode()).hexdigest()[:16], tabulated for the
\* credentials of the model
hash_api_key(api_key) ==
  CASE api_key = <<"k", "1">> -> "6ab9f1eb8f7d3388"
    [] api_key = <<"k", "2">> -> "015f7e6bc5aeaf48"
    [] api_key = <<>>         -> "e3b0c44298fc1c14"

(***************************************************************************)
(* proxy.py: the Upstream Forwarder, unary mode                            *)
(***************************************************************************)
JInt(n) == [t |-> "int", n |-> n]

\* text of the exception response.json() raises on a body that is not JSON
JsonDecodeMessage == "Expecting value: line 1 column 1 (char 0)"

\* forward_request(stream=False): the tuple (response_data,
\* response_time_ms, error) for one answer of the upstream.
\*   answer.kind = "response":  client.post returned; status_code, text and,
\*                              when the body is JSON, its value in `json`
\*   answer.kind = "exception": client.post raised (DNS, TLS, reset, timeout)
forward_request(answer, elapsed) ==
  IF answer.kind = "response"
    THEN IF answer.status_code = 200
           THEN IF answer.is_json
                  THEN [response_data |-> answer.json,
                        response_time_ms |-> JInt(elapsed),
                        error |-> JNull]
                  ELSE [response_data |-> JNull,
                        response_time_ms |-> JInt(elapsed),
                        error |-> JStr(JsonDecodeMessage)]
           ELSE [response_data |-> JNull,
                 response_time_ms |-> JInt(elapsed),
                 error |-> JStr("HTTP " \o ToString(answer.status_code)
                                 \o ": " \o answer.text)]
    ELSE [response_data |-> JNull,
          response_time_ms |-> JInt(elapsed),
          error |-> JStr(answer.message)]

(***************************************************************************)
(* Inputs                                                                  *)
(***************************************************************************)
\* Authorization header values: absent, empty, wrong scheme, wrong case,
\* too short, and two well-formed ones
Authorizations ==
  { JNull,
    JChars(<<>>),
    JChars(<<"B", "a", "s", "i", "c", " ", "k", "1">>),
    JChars(<<"b", "e", "a", "r", "e", "r", " ", "k", "1">>),
    JChars(<<"B", "e", "a", "r", "e", "r">>),
    JChars(<<"B", "e", "a", "r", "e", "r", " ", "k", "1">>),
    JChars(<<"B", "e", "a", "r", "e", "r", " ", "k", "2">>) }

UserMessage == JObj([role |-> JStr("user"), content |-> JStr("hi")])

\* the conversations of length n
Conversation(n) == JList([i \in 1..n |-> UserMessage])

\* request bodies: bytes that are not valid UTF-8 (json.loads raises
\* UnicodeDecodeError), text that is not JSON (json.loads raises
\* JSONDecodeError), and JSON objects
Bodies ==
  { [kind |-> "undecodable"], [kind |-> "not_json"],
    [kind |-> "json", json |-> EmptyObj] }
  \cup { [kind |-> "json",
          json |-> JObj([model |-> JStr("gpt"),
                         messages |-> Conversation(MaxMessages)])] }
  \cup { [kind |-> "json",
          json |-> JObj([model |-> JStr("gpt"),
                         messages |-> Conversation(MaxMessages),
                         stream |-> JBool(b)])]
         : b \in BOOLEAN }

ToolCall ==
  JObj([id |-> JStr("call_1"), type |-> JStr("function"),
        function |-> JObj([name |-> JStr("f"), arguments |-> JStr("{}")])])

Choice(message) == JObj([index |-> JInt(0), message |-> message])

\* JSON bodies of a 200 answer: every shape the Reconstructor distinguishes
Payloads ==
  { JNull,
    EmptyObj,
    JList(<<JStr("choices")>>),
    JObj([id |-> JStr("x")]),
    JObj([choices |-> JList(<<>>)]),
    JObj([choices |-> JStr("oops")]),
    JObj([choices |-> JList(<<JObj([index |-> JInt(0)])>>)]),
    JObj([choices |-> JList(<<Choice(JNull)>>)]),
    JObj([choices |-> JList(<<Choice(JStr("hi"))>>)]),
    JObj([choices |-> JList(<<Choice(JObj([content |-> JStr("hello")]))>>)]),
    JObj([choices |-> JList(<<Choice(JObj([content |-> JNull,
                                           tool_calls |-> JList(<<ToolCall>>)]))>>)]),
    JObj([choices |-> JList(<<Choice(JObj([tool_calls |-> JList(<<ToolCall>>)]))>>)]),
    JObj([choices |-> JList(<<Choice(JObj([content |-> JStr("x"),
                                           tool_calls |-> JList(<<>>)]))>>)]) }

\* answers of the upstream to a unary call
UnaryAnswers ==
  { [kind |-> "response", status_code |-> 200, is_json |-> TRUE, json |-> p]
      : p \in Payloads }
  \cup { [kind |-> "response", status_code |-> 200, is_json |-> FALSE] }
  \cup { [kind |-> "response", status_code |-> 429, text |-> "rate limited"],
         [kind |-> "response", status_code |-> 503, text |-> ""] }
  \cup { [kind |-> "exception", message |-> m]
           : m \in {"", "All connection attempts failed"} }

\* measured durations in milliseconds
ElapsedMs == {250}

\* text deltas carried by the chunks of a stream
Deltas == {"a", "b"}

\* an upstream SSE chunk carrying one text delta
DeltaChunk(delta) ==
  "data: {\"choices\": [{\"delta\": {\"content\": \"" \o delta \o "\"}}]}\n\n"

UpstreamChunks == { DeltaChunk(d) : d \in Deltas }

\* str(e) of a failure of the upstream stream
StreamFailures == {"peer closed connection"}

(***************************************************************************)
(* Responses of the endpoint                                               *)
(***************************************************************************)
NoResponse == [kind |-> "none", status_code |-> 0, body |-> JNull]

\* raise HTTPException(status_code, detail)
HTTPException(status_code, detail) ==
  [kind |-> "HTTPException", status_code |-> status_code, body |-> JStr(detail)]

\* an exception no handler catches: the framework answers 500
ServerError ==
  [kind |-> "ServerError", status_code |-> 500,
   body |-> JStr("Internal Server Error")]

\* JSONResponse(content=content)
JSONResponse(content) ==
  [kind |-> "JSONResponse", status_code |-> 200, body |-> content]

\* EventSourceResponse(event_generator())
EventSourceResponse ==
  [kind |-> "EventSourceResponse", status_code |-> 200, body |-> JNull]

(***************************************************************************)
(* State                                                                   *)
(***************************************************************************)
VARIABLES
  pc,                \* position of each exchange in chat_completions and,
                     \* once the handler has returned, in event_generator
  request,           \* the inbound call: Authorization header and body
  outbound,          \* calls made on the OpenAIProxy, in order
  upstream_answer,   \* what the upstream answered to forward_request
  client_response,   \* what the handler returned or raised
  db,                \* committed rows of llm_requests, in commit order
  store_failed,      \* db.add / db.commit raised in this exchange
  upstream_chunks,   \* chunks forward_stream has produced so far
  collected_chunks,  \* handle_streaming_request.collected_chunks
  client_chunks,     \* chunks event_generator has yielded
  error_occurred     \* handle_streaming_request.error_occurred

vars == <<pc, request, outbound, upstream_answer, client_response, db,
          store_failed, upstream_chunks, collected_chunks, client_chunks,
          error_occurred>>

NoRequest == [authorization |-> JNull, body |-> [kind |-> "none"]]
NoAnswer == [kind |-> "none"]

Init ==
  /\ pc = [e \in Exchanges |-> "idle"]
  /\ request = [e \in Exchanges |-> NoRequest]
  /\ outbound = [e \in Exchanges |-> <<>>]
  /\ upstream_answer = [e \in Exchanges |-> NoAnswer]
  /\ client_response = [e \in Exchanges |-> NoResponse]
  /\ db = <<>>
  /\ store_failed = [e \in Exchanges |-> FALSE]
  /\ upstream_chunks = [e \in Exchanges |-> <<>>]
  /\ collected_chunks = [e \in Exchanges |-> <<>>]
  /\ client_chunks = [e \in Exchanges |-> <<>>]
  /\ error_occurred = [e \in Exchanges |-> JNull]

(***************************************************************************)
(* Locals of chat_completions, as functions of the inbound call            *)
(***************************************************************************)
payload(e) == request[e].body.json
api_key(e) == extract_api_key(request[e].authorization).api_key
\* variant: the hash is salted per request
api_key_hash_salted(e) == hash_api_key(api_key(e)) \o ToString(e)
api_key_hash(e) == hash_api_key(api_key(e))
model(e) == Get(payload(e), "model", JStr("unknown"))
\* variant: the messages are kept in a module-level variable that every
\* call overwrites
messages_shared(e) ==
  LET g == CHOOSE x \in Exchanges :
             pc[x] # "idle" /\ \A y \in Exchanges : pc[y] # "idle" => y <= x
  IN IF request[g].body.kind = "json"
       THEN Get(request[g].body.json, "messages", JList(<<>>))
       ELSE JList(<<>>)
messages(e) == Get(payload(e), "messages", JList(<<>>))
stream(e) == Get(payload(e), "stream", JBool(FALSE))

(***************************************************************************)
(* chat_completions, unary path (app.py:204-262)                           *)
(***************************************************************************)
\* variant: the result of the Reconstructor is appended without the
\* `if assistant_msg` test
messages_with_response_unchecked(msgs, fr) ==
  IF Truthy(fr.error) THEN msgs
  ELSE Append1(msgs, extract_assistant_message(fr.response_data))

\* variant: the row is added to the session twice before the commit
Commit_twice(rows, row) == rows \o <<row, row>>

\* db.add(db_request); db.commit(), when neither raises
Commit(rows, row) == Append(rows, row)

\* messages.copy() with the assistant turn appended when there is one
messages_with_response(msgs, fr) ==
  IF Truthy(fr.error) THEN msgs
  ELSE LET assistant_msg == extract_assistant_message(fr.response_data)
       IN IF Truthy(assistant_msg) THEN Append1(msgs, assistant_msg) ELSE msgs

\* the LLMRequest row of a unary exchange
UnaryRecord(e, fr) ==
  [xid |-> e,
   model |-> model(e),
   messages |-> json_dumps(messages_with_response(messages(e), fr)),
   stream |-> FALSE,
   response |-> IF Truthy(fr.response_data)
                  THEN json_dumps(fr.response_data) ELSE JNull,
   response_time_ms |-> fr.response_time_ms,
   tool_calls |-> IF Truthy(fr.error) THEN JNull
                  ELSE extract_tool_calls(fr.response_data),
   api_key_hash |-> api_key_hash(e),
   status |-> IF Truthy(fr.error) THEN "error" ELSE "ok",
   status_code |-> IF Truthy(fr.response_data) THEN 200 ELSE 500,
   error |-> fr.error]

\* variant: an empty payload is taken for a failure
UnaryResponse_falsy(fr) ==
  IF Truthy(fr.error) \/ ~Truthy(fr.response_data)
    THEN HTTPException(500, IF Truthy(fr.error) THEN fr.error.s ELSE "")
  ELSE JSONResponse(fr.response_data)

\* what the handler answers once the row is committed (app.py:259-262)
UnaryResponse(fr) ==
  IF Truthy(fr.error) THEN HTTPException(500, fr.error.s)
  ELSE JSONResponse(fr.response_data)

\* variant: the store failure is caught and the caller is answered as if the
\* row had been written
UnaryStoreFailure_absorbed(fr) == UnaryResponse(fr)

\* what the handler answers when db.add / db.commit raises: nothing catches
\* the exception in the unary path
UnaryStoreFailure(fr) == ServerError

(***************************************************************************)
(* handle_streaming_request (app.py:265-346)                               *)
(***************************************************************************)
\* variant: the elapsed time is recorded as 0 instead of left absent
StreamingRecord_timed(e, err) ==
  [xid |-> e,
   model |-> model(e),
   messages |-> json_dumps(messages(e)),
   stream |-> TRUE,
   response |-> JNull,
   response_time_ms |-> JInt(0),
   tool_calls |-> JNull,
   api_key_hash |-> api_key_hash(e),
   status |-> IF ~Truthy(err) THEN "ok" ELSE "error",
   status_code |-> 200,
   error |-> err]

\* the LLMRequest row of a streaming exchange, built from the value
\* error_occurred has when the handler runs
StreamingRecord(e, err) ==
  [xid |-> e,
   model |-> model(e),
   messages |-> json_dumps(messages(e)),
   stream |-> TRUE,
   response |-> JNull,
   response_time_ms |-> JNull,
   tool_calls |-> JNull,
   api_key_hash |-> api_key_hash(e),
   status |-> IF ~Truthy(err) THEN "ok" ELSE "error",
   status_code |-> 200,
   error |-> err]

\* variant: the store failure leaves the handler, as in the unary path
StreamingStoreFailure_raises == ServerError

\* what the handler answers when db.add / db.commit raises: the except
\* clause logs and the response is returned
StreamingStoreFailure == EventSourceResponse

\* variant: a chunk equal to the last buffered one is not buffered again
AppendChunk_skip_repeat(chunks, chunk) ==
  IF chunks # <<>> /\ chunks[Len(chunks)] = chunk
    THEN chunks ELSE Append(chunks, chunk)

\* collected_chunks.append(chunk)
AppendChunk(chunks, chunk) == Append(chunks, chunk)

\* the synthetic chunk of a failed stream
ErrorChunk(message) == "data: {\"error\": \"" \o message \o "\"}\n\n"

\* variant: the synthetic chunk is buffered but not yielded
YieldChunk_upstream_only(yielded, chunk) ==
  IF chunk \in { ErrorChunk(m) : m \in StreamFailures }
    THEN yielded ELSE Append(yielded, chunk)

\* yield chunk
YieldChunk(yielded, chunk) == Append(yielded, chunk)

(***************************************************************************)
(* Actions                                                                 *)
(***************************************************************************)

\* app.py:339-340.  db.commit() is a synchronous call made inside a coroutine:
\* while it runs the event loop schedules no handler and no generator.
LoopBlocked == \E f \in Exchanges : pc[f] = "stream_persist"

\* app.py:149-151.  The next call arrives; extract_api_key either raises 401
\* or hands over the key, and the handler goes on to await request.json().
Receive(e) ==
  /\ ~LoopBlocked
  /\ pc[e] = "idle"
  /\ \A f \in Exchanges : f < e => pc[f] # "idle"
  /\ \E a \in Authorizations, b \in Bodies :
       /\ request' = [request EXCEPT ![e] = [authorization |-> a, body |-> b]]
       /\ LET r == extract_api_key(a) IN
            IF r.ok
              THEN /\ pc' = [pc EXCEPT ![e] = "read_body"]
                   /\ UNCHANGED client_response
              ELSE /\ pc' = [pc EXCEPT ![e] = "done"]
                   /\ client_response' = [client_response EXCEPT ![e] =
                        HTTPException(r.status_code, r.detail)]
  /\ UNCHANGED <<outbound, upstream_answer, db, store_failed, upstream_chunks,
                 collected_chunks, client_chunks, error_occurred>>

\* app.py:153-158.  request.json() raises: JSONDecodeError is turned into a
\* 400, any other exception (UnicodeDecodeError) leaves the handler.
RejectBody(e) ==
  /\ ~LoopBlocked
  /\ pc[e] = "read_body"
  /\ request[e].body.kind # "json"
  /\ pc' = [pc EXCEPT ![e] = "done"]
  /\ client_response' = [client_response EXCEPT ![e] =
       IF request[e].body.kind = "not_json"
         THEN HTTPException(400, "Invalid JSON payload")
         ELSE ServerError]
  /\ UNCHANGED <<request, outbound, upstream_answer, db, store_failed,
                 upstream_chunks, collected_chunks, client_chunks,
                 error_occurred>>

\* app.py:160-208, stream falsy.  The handler calls forward_request and
\* awaits its result.
DispatchUnary(e) ==
  /\ ~LoopBlocked
  /\ pc[e] = "read_body"
  /\ request[e].body.kind = "json"
  /\ ~Truthy(stream(e))
  /\ outbound' = [outbound EXCEPT ![e] = Append(@, "forward_request")]
  /\ pc' = [pc EXCEPT ![e] = "await_forward"]
  /\ UNCHANGED <<request, upstream_answer, client_response, db, store_failed,
                 upstream_chunks, collected_chunks, client_chunks,
                 error_occurred>>

\* proxy.py:35-56 and app.py:210-262.  forward_request returns; the row is
\* built, added and committed, and the caller is answered.
ForwardReturn(e) ==
  /\ ~LoopBlocked
  /\ pc[e] = "await_forward"
  /\ \E answer \in UnaryAnswers, elapsed \in ElapsedMs, commit_ok \in BOOLEAN :
       LET fr == forward_request(answer, elapsed) IN
         /\ upstream_answer' = [upstream_answer EXCEPT ![e] = answer]
         /\ store_failed' = [store_failed EXCEPT ![e] = ~commit_ok]
         /\ db' = IF commit_ok THEN Commit(db, UnaryRecord(e, fr)) ELSE db
         /\ client_response' = [client_response EXCEPT ![e] =
              IF commit_ok THEN UnaryResponse(fr) ELSE UnaryStoreFailure(fr)]
  /\ pc' = [pc EXCEPT ![e] = "done"]
  /\ UNCHANGED <<request, outbound, upstream_chunks, collected_chunks,
                 client_chunks, error_occurred>>

\* app.py:160-200 and 265-340, stream truthy.  handle_streaming_request has
\* no await: it creates the generator (not started), builds the row and
\* calls db.add / db.commit, a synchronous call made on the event loop.
DispatchStreaming(e) ==
  /\ ~LoopBlocked
  /\ pc[e] = "read_body"
  /\ request[e].body.kind = "json"
  /\ Truthy(stream(e))
  /\ pc' = [pc EXCEPT ![e] = "stream_persist"]
  /\ UNCHANGED <<request, outbound, upstream_answer, client_response, db,
                 store_failed, upstream_chunks, collected_chunks,
                 client_chunks, error_occurred>>

\* app.py:339-346.  The store call returns or raises; the except clause
\* absorbs a failure and the handler returns the response.
StreamPersistReturn(e) ==
  /\ pc[e] = "stream_persist"
  /\ \E commit_ok \in BOOLEAN :
       /\ store_failed' = [store_failed EXCEPT ![e] = ~commit_ok]
       /\ db' = IF commit_ok
                  THEN Commit(db, StreamingRecord(e, error_occurred[e]))
                  ELSE db
       /\ client_response' = [client_response EXCEPT ![e] =
            IF commit_ok THEN EventSourceResponse ELSE StreamingStoreFailure]
  /\ pc' = [pc EXCEPT ![e] = "stream_ready"]
  /\ UNCHANGED <<request, outbound, upstream_answer, upstream_chunks,
                 collected_chunks, client_chunks, error_occurred>>

\* app.py:296-298.  The response starts iterating event_generator, which
\* opens the upstream stream (proxy.py:74-80).
GenStart(e) ==
  /\ ~LoopBlocked
  /\ pc[e] = "stream_ready"
  /\ outbound' = [outbound EXCEPT ![e] = Append(@, "forward_stream")]
  /\ pc' = [pc EXCEPT ![e] = "gen_await"]
  /\ UNCHANGED <<request, upstream_answer, client_response, db, store_failed,
                 upstream_chunks, collected_chunks, client_chunks,
                 error_occurred>>

\* proxy.py:81-82 and app.py:298-301.  A chunk arrives: it is appended to
\* the buffer and yielded; the generator is suspended at the yield.
GenChunk(e) ==
  /\ ~LoopBlocked
  /\ pc[e] = "gen_await"
  /\ Len(upstream_chunks[e]) < MaxChunks
  /\ \E chunk \in UpstreamChunks :
       /\ upstream_chunks' = [upstream_chunks EXCEPT ![e] = Append(@, chunk)]
       /\ collected_chunks' = [collected_chunks EXCEPT ![e] =
            AppendChunk(@, chunk)]
       /\ client_chunks' = [client_chunks EXCEPT ![e] = YieldChunk(@, chunk)]
  /\ pc' = [pc EXCEPT ![e] = "gen_yielded"]
  /\ UNCHANGED <<request, outbound, upstream_answer, client_response, db,
                 store_failed, error_occurred>>

\* variant: the error chunk is yielded inside the loop, which goes on
\* yielding it
AfterYield_again(at) ==
  IF at = "gen_yielded" THEN "gen_await" ELSE "gen_yielded_error"

\* where the generator goes when resumed after a yield: back into the loop
\* (app.py:298) or, after the error chunk, to its end (app.py:308)
AfterYield(at) ==
  IF at = "gen_yielded" THEN "gen_await" ELSE "gen_done"

\* The response asks for the next chunk: the generator resumes after the
\* yield.
GenResume(e) ==
  /\ ~LoopBlocked
  /\ pc[e] \in {"gen_yielded", "gen_yielded_error"}
  /\ pc' = [pc EXCEPT ![e] = AfterYield(pc[e])]
  /\ UNCHANGED <<request, outbound, upstream_answer, client_response, db,
                 store_failed, upstream_chunks, collected_chunks,
                 client_chunks, error_occurred>>

\* app.py:302.  The upstream closes the stream; the generator returns.
GenEnd(e) ==
  /\ ~LoopBlocked
  /\ pc[e] = "gen_await"
  /\ pc' = [pc EXCEPT ![e] = "gen_done"]
  /\ UNCHANGED <<request, outbound, upstream_answer, client_response, db,
                 store_failed, upstream_chunks, collected_chunks,
                 client_chunks, error_occurred>>

\* app.py:303-308.  The upstream stream raises (at the connection or
\* between two chunks): the error is noted, the error chunk is appended to
\* the buffer and yielded.
GenFail(e) ==
  /\ ~LoopBlocked
  /\ pc[e] = "gen_await"
  /\ \E message \in StreamFailures :
       /\ error_occurred' = [error_occurred EXCEPT ![e] = JStr(message)]
       /\ collected_chunks' = [collected_chunks EXCEPT ![e] =
            AppendChunk(@, ErrorChunk(message))]
       /\ client_chunks' = [client_chunks EXCEPT ![e] =
            YieldChunk(@, ErrorChunk(message))]
  /\ pc' = [pc EXCEPT ![e] = "gen_yielded_error"]
  /\ UNCHANGED <<request, outbound, upstream_answer, client_response, db,
                 store_failed, upstream_chunks>>

\* The client goes away: the response is cancelled and the generator is
\* closed where it stands.  CancelledError and GeneratorExit are not
\* Exception subclasses, so the except clause at app.py:303 does not run.
ClientDisconnect(e) ==
  /\ ~LoopBlocked
  /\ pc[e] \in {"stream_ready", "gen_await", "gen_yielded",
                "gen_yielded_error"}
  /\ pc' = [pc EXCEPT ![e] = "gen_closed"]
  /\ UNCHANGED <<request, outbound, upstream_answer, client_response, db,
                 store_failed, upstream_chunks, collected_chunks,
                 client_chunks, error_occurred>>

Next ==
  \E e \in Exchanges :
    \/ Receive(e)
    \/ RejectBody(e)
    \/ DispatchUnary(e)
    \/ ForwardReturn(e)
    \/ DispatchStreaming(e)
    \/ StreamPersistReturn(e)
    \/ GenStart(e)
    \/ GenChunk(e)
    \/ GenResume(e)
    \/ GenEnd(e)
    \/ GenFail(e)
    \/ ClientDisconnect(e)

Spec == Init /\ [][Next]_vars

\* Scheduling.  The event loop runs every handler and generator that is ready
\* (asyncio); the store call returns or raises; the upstream call returns,
\* fails or runs into the timeout of the client (proxy.py:14); a connected
\* client takes the chunks it is offered; the upstream stream delivers a
\* chunk, ends, or fails, the read timeout included.
\* At most one of these steps is possible for an exchange at a time.
Progress(e) ==
  \/ RejectBody(e)
  \/ DispatchUnary(e)
  \/ ForwardReturn(e)
  \/ DispatchStreaming(e)
  \/ StreamPersistReturn(e)
  \/ GenStart(e)
  \/ GenResume(e)
  \/ GenChunk(e) \/ GenEnd(e) \/ GenFail(e)

Fairness == \A e \in Exchanges : WF_vars(Progress(e))

FairSpec == Spec /\ Fairness

(***************************************************************************)
(* Properties                                                              *)
(***************************************************************************)
\* rows of the store written by exchange e
RecordsOf(e) == { i \in 1..Len(db) : db[i].xid = e }

Unary(e) == upstream_answer[e].kind # "none"
Finished(e) == pc[e] \in {"gen_done", "gen_closed"}

\* forward_request returned a payload (response_data is not None)
ReturnedPayload(e) ==
  /\ upstream_answer[e].kind = "response"
  /\ upstream_answer[e].status_code = 200
  /\ upstream_answer[e].is_json
  /\ upstream_answer[e].json # JNull

\* the upstream answered 200 with a JSON body
Answered200(e) ==
  /\ upstream_answer[e].kind = "response"
  /\ upstream_answer[e].status_code = 200
  /\ upstream_answer[e].is_json

\* C1: once event_generator has finished (stream closed, stream failed or
\* generator closed on disconnect), the chunks yielded to the client are, in
\* order, the chunks held in collected_chunks.
C1_TeeFidelity ==
  \A e \in Exchanges :
    Finished(e) => client_chunks[e] = collected_chunks[e]

\* a stream that delivered two equal chunks and then failed has finished
C1_Witness ==
  \E e \in Exchanges :
    /\ pc[e] = "gen_done"
    /\ error_occurred[e] # JNull
    /\ Len(upstream_chunks[e]) = 2
    /\ upstream_chunks[e][1] = upstream_chunks[e][2]
    /\ Len(client_chunks[e]) = 3

\* the payload has a non-empty `choices` list whose first element is an
\* object carrying a non-empty `message` object
HasFirstChoiceMessage(p) ==
  /\ p.t = "obj" /\ "choices" \in DOMAIN p.f
  /\ p.f["choices"].t = "list" /\ p.f["choices"].items # <<>>
  /\ LET first == p.f["choices"].items[1] IN
       /\ first.t = "obj" /\ "message" \in DOMAIN first.f
       /\ first.f["message"].t = "obj"
       /\ DOMAIN first.f["message"].f # {}

IsAssistantTurn(m) ==
  m.t = "obj" /\ "role" \in DOMAIN m.f /\ m.f["role"] = JStr("assistant")

\* C2 as stated, for payloads that are JSON objects: whenever
\* forward_request returned a payload, the stored messages are the original
\* messages followed by exactly one assistant turn.
C2_Original ==
  \A e \in Exchanges : \A i \in RecordsOf(e) :
    (Unary(e) /\ ReturnedPayload(e) /\ IsObj(upstream_answer[e].json)) =>
      \E stored \in { db[i].messages.of } :
        /\ Len(stored.items) = Len(messages(e).items) + 1
        /\ SubSeq(stored.items, 1, Len(messages(e).items)) = messages(e).items
        /\ IsAssistantTurn(stored.items[Len(stored.items)])

\* C2 amended: whenever forward_request returned a payload, the stored
\* messages are the original messages followed by exactly one assistant turn
\* reconstructed from the payload when the payload has a first choice with a
\* non-empty message object, and are the original messages otherwise.
C2_Amended ==
  \A e \in Exchanges : \A i \in RecordsOf(e) :
    (Unary(e) /\ ReturnedPayload(e)) =>
      LET p == upstream_answer[e].json
          stored == db[i].messages.of
      IN IF HasFirstChoiceMessage(p)
           THEN /\ Len(stored.items) = Len(messages(e).items) + 1
                /\ SubSeq(stored.items, 1, Len(messages(e).items))
                     = messages(e).items
                /\ IsAssistantTurn(stored.items[Len(stored.items)])
                /\ stored.items[Len(stored.items)]
                     = extract_assistant_message(p)
           ELSE stored = messages(e)

\* a row with the turn appended to a non-empty conversation
C2_Witness ==
  \E e \in Exchanges : \E i \in RecordsOf(e) :
    /\ Unary(e) /\ ReturnedPayload(e)
    /\ HasFirstChoiceMessage(upstream_answer[e].json)
    /\ Len(messages(e).items) = 1
    /\ Len(db[i].messages.of.items) = 2

\* the header is missing or does not start with "Bearer "
BadAuthorization(e) ==
  \/ request[e].authorization = JNull
  \/ ~StartsWith(request[e].authorization.s, BearerPrefix)

\* the body cannot be parsed as JSON
UnparsableBody(e) == request[e].body.kind \in {"undecodable", "not_json"}

\* C3 as stated: a missing or malformed Authorization header is answered
\* 401, an unparsable body is answered 400, and in both cases no call to
\* forward_request or forward_stream is made for the exchange.
C3_Claim ==
  \A e \in Exchanges :
    /\ (pc[e] # "idle" /\ BadAuthorization(e)) =>
         /\ pc[e] = "done"
         /\ client_response[e].status_code = 401
         /\ outbound[e] = <<>>
    /\ (pc[e] = "done" /\ ~BadAuthorization(e) /\ UnparsableBody(e)) =>
         /\ client_response[e].status_code = 400
         /\ outbound[e] = <<>>

\* the error text forward_request builds for status S and body B
HttpErrorText(S, B) == "HTTP " \o ToString(S) \o ": " \o B

\* C4 as stated: when the upstream answers a unary call with a non-success
\* status S and body B, the caller receives a 500 whose detail is
\* "HTTP S: B" and the persisted row has status "error", that error text, no
\* raw response and the original messages.
C4_Claim ==
  \A e \in Exchanges :
    (pc[e] = "done" /\ upstream_answer[e].kind = "response"
       /\ upstream_answer[e].status_code # 200) =>
      LET text == HttpErrorText(upstream_answer[e].status_code,
                                upstream_answer[e].text)
      IN /\ client_response[e].status_code = 500
         /\ client_response[e].body = JStr(text)
         /\ RecordsOf(e) # {}
         /\ \A i \in RecordsOf(e) :
              /\ db[i].status = "error"
              /\ db[i].error = JStr(text)
              /\ db[i].response = JNull
              /\ db[i].messages = json_dumps(messages(e))

\* C5 as stated, for exchanges whose store call succeeded: when the unary
\* call fails at transport level, with any message, an "error" row without
\* assistant turn is persisted and the caller receives a 500, not a success.
C5_Claim ==
  \A e \in Exchanges :
    (pc[e] = "done" /\ upstream_answer[e].kind = "exception"
       /\ ~store_failed[e]) =>
      /\ client_response[e].status_code = 500
      /\ client_response[e].kind = "HTTPException"
      /\ RecordsOf(e) # {}
      /\ \A i \in RecordsOf(e) :
           /\ db[i].status = "error"
           /\ db[i].messages = json_dumps(messages(e))

\* C6 as stated: in the unary path a failure of the store does not change
\* what the caller sees; when the upstream answered 200 with a completion
\* the caller receives that payload with status 200.
C6_Claim ==
  \A e \in Exchanges :
    (pc[e] = "done" /\ Unary(e) /\ ReturnedPayload(e) /\ store_failed[e]
       /\ HasFirstChoiceMessage(upstream_answer[e].json)) =>
      /\ client_response[e].status_code = 200
      /\ client_response[e].body = upstream_answer[e].json

\* what the relay has delivered given what the upstream did
RelayOf(e) ==
  upstream_chunks[e] \o
    (IF error_occurred[e] = JNull THEN <<>>
     ELSE <<ErrorChunk(error_occurred[e].s)>>)

Streaming(e) ==
  pc[e] \in {"stream_ready", "gen_await", "gen_yielded", "gen_yielded_error",
             "gen_done", "gen_closed"}

\* C7: in the streaming path a failure of the store is absorbed: the handler
\* still returns the streaming response, the generator can be started, and
\* the client receives the upstream chunks (and the error chunk of a failed
\* stream) as it does with a working store.
C7_StoreFailureAbsorbed ==
  \A e \in Exchanges :
    (Streaming(e) /\ store_failed[e]) =>
      /\ client_response[e] = EventSourceResponse
      /\ client_chunks[e] = RelayOf(e)
      /\ (pc[e] = "stream_ready" /\ ~LoopBlocked => ENABLED GenStart(e))
      /\ (pc[e] = "gen_await" /\ ~LoopBlocked => ENABLED GenEnd(e))

\* a stream relayed to its end although the store call failed
C7_Witness ==
  \E e \in Exchanges :
    /\ store_failed[e]
    /\ pc[e] = "gen_done"
    /\ error_occurred[e] = JNull
    /\ Len(client_chunks[e]) = 2

\* C8: when the upstream answers a unary call 200 with a JSON payload and
\* the store works, the caller receives that payload with status 200, whether
\* or not the Reconstructor yields a turn.
C8_PayloadReturned ==
  \A e \in Exchanges :
    (pc[e] = "done" /\ Unary(e) /\ Answered200(e) /\ ~store_failed[e]) =>
      /\ client_response[e].kind = "JSONResponse"
      /\ client_response[e].status_code = 200
      /\ client_response[e].body = upstream_answer[e].json

\* a 200 answer with a malformed `choices` returned to the caller
C8_Witness ==
  \E e \in Exchanges :
    /\ pc[e] = "done" /\ Unary(e) /\ Answered200(e) /\ ~store_failed[e]
    /\ upstream_answer[e].json = JObj([choices |-> JStr("oops")])
    /\ client_response[e].status_code = 200

\* the delta a chunk of the stream carries
DeltaOf(chunk) == CHOOSE d \in Deltas : DeltaChunk(d) = chunk

RECURSIVE ConcatDeltas(_)
\* in-order concatenation of the deltas of a chunk sequence
ConcatDeltas(chunks) ==
  IF chunks = <<>> THEN ""
  ELSE DeltaOf(Head(chunks)) \o ConcatDeltas(Tail(chunks))

\* C9 as stated, for exchanges whose row was committed and whose stream
\* carried two chunks: after a stream ends normally the persisted messages
\* end with an assistant turn whose content is the concatenation of the
\* streamed deltas.
C9_Claim ==
  \A e \in Exchanges :
    (pc[e] = "gen_done" /\ error_occurred[e] = JNull /\ ~store_failed[e]
       /\ Len(collected_chunks[e]) = 2) =>
      \E i \in RecordsOf(e) :
        db[i].messages =
          json_dumps(Append1(messages(e),
            JObj([role |-> JStr("assistant"),
                  content |-> JStr(ConcatDeltas(collected_chunks[e]))])))

\* C10 as stated, for exchanges whose row was committed and whose stream
\* failed after one chunk: after the upstream stream failed the persisted
\* row has status "error", carries the error detail and holds the chunks
\* received before the failure.
C10_Claim ==
  \A e \in Exchanges :
    (pc[e] = "gen_done" /\ error_occurred[e] # JNull /\ ~store_failed[e]
       /\ Len(upstream_chunks[e]) = 1) =>
      \E i \in RecordsOf(e) :
        /\ db[i].status = "error"
        /\ db[i].error = error_occurred[e]
        /\ db[i].response # JNull

\* C11 as stated: after the client has disconnected in the middle of a
\* stream, and as long as the upstream has neither closed nor failed, the
\* consumption of the upstream goes on: the next chunk can still be taken and
\* buffered, or the end or failure of the stream noted.
C11_Claim ==
  \A e \in Exchanges :
    (pc[e] = "gen_closed" /\ outbound[e] # <<>> /\ error_occurred[e] = JNull
       /\ upstream_chunks[e] # <<>>) =>
      ENABLED (GenChunk(e) \/ GenEnd(e) \/ GenFail(e))

\* the exchange has reached its terminal state
Terminal(e) == pc[e] \in {"done", "gen_done", "gen_closed"}

\* the call passed the credential check and its body is a JSON object
Accepted(e) ==
  /\ pc[e] # "idle"
  /\ ~BadAuthorization(e)
  /\ request[e].body.kind = "json"

\* C12 as stated: once an exchange has reached its terminal state the store
\* holds exactly one row for it, whatever the outcome of the call.
C12_Original ==
  \A e \in Exchanges :
    Terminal(e) => Cardinality(RecordsOf(e)) = 1

\* C12 amended: an exchange never has more than one row; once it has reached
\* its terminal state it has exactly one row when the call passed the
\* credential and payload checks and the store accepted the write, and no
\* row when the credential or the payload was rejected or the write failed.
C12_Amended ==
  \A e \in Exchanges :
    /\ Cardinality(RecordsOf(e)) <= 1
    /\ Terminal(e) =>
         IF Accepted(e) /\ ~store_failed[e]
           THEN Cardinality(RecordsOf(e)) = 1
           ELSE RecordsOf(e) = {}

\* a rejected call without a row next to a relayed stream with its one row
C12_Witness ==
  \E e, f \in Exchanges :
    /\ Terminal(e) /\ ~Accepted(e) /\ RecordsOf(e) = {}
    /\ pc[f] = "gen_done" /\ Cardinality(RecordsOf(f)) = 1


\* C13: the audit record of a streaming exchange is written in the
\* background, so chunks can be relayed to the client while the store call
\* has not yet returned: relaying never waits for persistence.
C13_Claim ==
  \A e \in Exchanges :
    pc[e] = "stream_persist" =>
      ENABLED (GenStart(e) \/ GenChunk(e) \/ GenEnd(e) \/ GenFail(e))


C15_FingerprintDeterministic ==
  \A i, j \in 1..Len(db) :
    /\ Len(db[i].api_key_hash) = 16
    /\ api_key(db[i].xid) = api_key(db[j].xid) =>
         db[i].api_key_hash = db[j].api_key_hash

\* the same credential recorded for a unary exchange that failed and for a
\* streaming exchange
C15_Witness ==
  \E i, j \in 1..Len(db) :
    /\ db[i].xid # db[j].xid
    /\ api_key(db[i].xid) = api_key(db[j].xid)
    /\ ~db[i].stream /\ db[i].status = "error"
    /\ db[j].stream


\* C16: when the upstream stream fails, exactly one synthetic error chunk is
\* appended to collected_chunks and yielded to the client, in both directly
\* after the last chunk received, and it is the last element of both: the
\* generator reads, buffers and relays nothing after it.
C16_ErrorChunkTerminal ==
  \A e \in Exchanges :
    error_occurred[e] # JNull =>
      LET error_chunk == ErrorChunk(error_occurred[e].s) IN
        /\ collected_chunks[e] = Append(upstream_chunks[e], error_chunk)
        /\ client_chunks[e] = Append(upstream_chunks[e], error_chunk)
        /\ Cardinality({ i \in 1..Len(collected_chunks[e]) :
                           collected_chunks[e][i] = error_chunk }) = 1
        /\ pc[e] \in {"gen_yielded_error", "gen_done", "gen_closed"}
        /\ ~ENABLED (GenChunk(e) \/ GenFail(e))

\* a stream that failed after one chunk and whose relay has ended
C16_Witness ==
  \E e \in Exchanges :
    /\ pc[e] = "gen_done"
    /\ error_occurred[e] # JNull
    /\ Len(upstream_chunks[e]) = 1
    /\ Len(client_chunks[e]) = 2


\* what the request of exchange e itself carries
OwnMessages(e) == Get(request[e].body.json, "messages", JList(<<>>))
OwnModel(e) == Get(request[e].body.json, "model", JStr("unknown"))
OwnKeyHash(e) == hash_api_key(extract_api_key(request[e].authorization).api_key)

\* every row, buffer and error flag holds the data of its own exchange only
C17_OwnData ==
  /\ \A i \in 1..Len(db) :
       LET e == db[i].xid IN
         /\ db[i].model = OwnModel(e)
         /\ db[i].api_key_hash = OwnKeyHash(e)
         /\ IF db[i].stream
              THEN /\ db[i].messages = json_dumps(OwnMessages(e))
                   /\ ~Unary(e)
              ELSE \E elapsed \in ElapsedMs :
                     LET fr == forward_request(upstream_answer[e], elapsed) IN
                       /\ db[i].messages =
                            json_dumps(messages_with_response(OwnMessages(e), fr))
                       /\ db[i].error = fr.error
                       /\ db[i].response =
                            (IF Truthy(fr.response_data)
                               THEN json_dumps(fr.response_data) ELSE JNull)
  /\ \A e \in Exchanges :
       /\ collected_chunks[e] = RelayOf(e)
       /\ Unary(e) => collected_chunks[e] = <<>> /\ error_occurred[e] = JNull

\* a step leaves untouched every exchange whose position it does not change,
\* and every row already written
C17_Frame ==
  /\ Len(db') >= Len(db) /\ SubSeq(db', 1, Len(db)) = db
  /\ \A f \in Exchanges :
       pc'[f] = pc[f] =>
         /\ request'[f] = request[f]
         /\ outbound'[f] = outbound[f]
         /\ upstream_answer'[f] = upstream_answer[f]
         /\ client_response'[f] = client_response[f]
         /\ store_failed'[f] = store_failed[f]
         /\ upstream_chunks'[f] = upstream_chunks[f]
         /\ collected_chunks'[f] = collected_chunks[f]
         /\ client_chunks'[f] = client_chunks[f]
         /\ error_occurred'[f] = error_occurred[f]
         /\ \A i \in 1..Len(db') : i > Len(db) => db'[i].xid # f

\* C17: exchanges are independent under any interleaving.  The chunk buffer,
\* the error flag and the row of each exchange contain only that exchange's
\* own chunks, messages and outcome, and a step of one exchange (reaching a
\* terminal state included) changes nothing in any other exchange.
C17_Independent == []C17_OwnData /\ [][C17_Frame]_vars

\* two exchanges in flight together, with different messages: the second to
\* arrive, a stream that relayed a chunk, was recorded before the first, a
\* unary call
C17_Witness ==
  /\ Len(db) = 2
  /\ db[1].xid = 2 /\ db[1].stream /\ collected_chunks[2] # <<>>
  /\ db[2].xid = 1 /\ ~db[2].stream
  /\ db[1].messages # db[2].messages
  /\ pc[1] = "done" /\ pc[2] = "gen_done"


\* the row of a streaming exchange as it is written at acceptance
C18_RowAtAcceptance ==
  \A e \in Exchanges :
    /\ pc[e] \in {"read_body", "stream_persist"} => outbound[e] = <<>>
    /\ (Streaming(e) /\ ~store_failed[e]) =>
         /\ Cardinality(RecordsOf(e)) = 1
         /\ \A i \in RecordsOf(e) :
              /\ db[i].stream
              /\ db[i].messages = json_dumps(OwnMessages(e))
              /\ db[i].response = JNull
              /\ db[i].response_time_ms = JNull
              /\ db[i].tool_calls = JNull

\* no step changes or removes a row of a streaming exchange
C18_RowFrozen ==
  \A i \in 1..Len(db) :
    db[i].stream => Len(db') >= i /\ db'[i] = db[i]

C19_Claim ==
  \A e \in Exchanges : \A i \in RecordsOf(e) :
    (Unary(e) /\ ReturnedPayload(e)
       /\ HasFirstChoiceMessage(upstream_answer[e].json)) =>
      LET message == upstream_answer[e].json.f["choices"].items[1].f["message"]
          stored == db[i].messages.of.items
          turn == stored[Len(stored)]
          has_calls == /\ "tool_calls" \in DOMAIN message.f
                       /\ message.f["tool_calls"].t = "list"
                       /\ message.f["tool_calls"].items # <<>>
      IN /\ turn = extract_assistant_message(upstream_answer[e].json)
         /\ turn.f["role"] = JStr("assistant")
         /\ turn.f["content"].t = "str"
         /\ turn.f["content"] =
              (IF "content" \in DOMAIN message.f /\ message.f["content"].t = "str"
                 THEN message.f["content"] ELSE JStr(""))
         /\ ("tool_calls" \in DOMAIN turn.f) = has_calls
         /\ has_calls => turn.f["tool_calls"] = message.f["tool_calls"]


\* the exchange passed the credential and payload checks and was dispatched
Dispatched(e) ==
  pc[e] \in {"await_forward", "stream_persist", "stream_ready", "gen_await",
             "gen_yielded", "gen_yielded_error"}

\* C20: every exchange that passed the credential and payload checks
\* eventually reaches a terminal state: a unary exchange answers the caller
\* once the upstream answers, fails or times out, and the relay of a
\* streaming exchange ends once the upstream closes the stream or fails.
\* A dispatched exchange can only stay dispatched or become terminal, a
\* terminal one stays where it is, and no exchange stays dispatched forever.
C20_EventuallyTerminal ==
  /\ \A e \in Exchanges : <>[](~Dispatched(e))
  /\ [][\A e \in Exchanges :
          /\ Dispatched(e) => Dispatched(e)' \/ Terminal(e)'
          /\ Terminal(e) => pc'[e] = pc[e]]_vars

\* a unary exchange ended by a failure of the upstream call and a stream
\* ended by a failure after a chunk, both terminal
C20_Witness ==
  \E e, f \in Exchanges :
    /\ pc[e] = "done" /\ upstream_answer[e].kind = "exception"
    /\ pc[f] = "gen_done" /\ error_occurred[f] # JNull
    /\ Len(upstream_chunks[f]) >= 1


\* C21: the outcome fields of every persisted record are mutually
\* consistent: status is "ok" exactly when status_code is 200 and exactly
\* when the error field is absent; status is "error" exactly when status_code
\* is 500 and an error text is present.
C21_Claim ==
  \A i \in 1..Len(db) :
    /\ db[i].status \in {"ok", "error"}
    /\ (db[i].status = "ok") <=> (db[i].status_code = 200)
    /\ (db[i].status = "ok") <=> (db[i].error = JNull)
    /\ (db[i].status = "error") <=>
         (db[i].status_code = 500 /\ Truthy(db[i].error))


\* C22: in the unary path the record is committed before the caller is
\* answered.  Whenever the caller of a unary exchange has received the
\* upstream payload or the upstream-error response, one record of that
\* exchange is in the store, with status "ok" for the payload and "error"
\* (and the error text sent to the caller) for the error response.
C22_CommittedBeforeAnswer ==
  \A e \in Exchanges :
    Unary(e) =>
      /\ client_response[e].kind = "JSONResponse" =>
           /\ Cardinality(RecordsOf(e)) = 1
           /\ \A i \in RecordsOf(e) : db[i].status = "ok"
      /\ client_response[e].kind = "HTTPException" =>
           /\ Cardinality(RecordsOf(e)) = 1
           /\ \A i \in RecordsOf(e) :
                /\ db[i].status = "error"
                /\ db[i].error = client_response[e].body

\* one caller answered with the payload and one with the upstream error,
\* both recorded
C22_Witness ==
  \E e, f \in Exchanges :
    /\ Unary(e) /\ client_response[e].kind = "JSONResponse"
    /\ HasFirstChoiceMessage(client_response[e].body)
    /\ Unary(f) /\ client_response[f].kind = "HTTPException"
    /\ upstream_answer[f].kind = "response"
    /\ RecordsOf(e) # {} /\ RecordsOf(f) # {}

====
